---- MODULE Spec2Model ----
(***************************************************************************)
(* Vault Changelog plugin (obsidian-vault-changelog).                      *)
(*                                                                         *)
(* The plugin keeps one note, the changelog, that lists the most recently  *)
(* modified markdown files of the vault.  The model covers                 *)
(*   - the settings object and its load from persisted data,               *)
(*   - the file selector   (getRecentlyEditedFiles),                       *)
(*   - the text renderer   (generateChangelog),                            *)
(*   - the writer          (writeToFile) with its suspension points,       *)
(*   - the change gate     (debounce(onVaultChange, 200) and the three      *)
(*                          vault event handlers of enableAutoUpdate),     *)
(*   - the "Update Changelog" command,                                     *)
(*   - the handlers of the settings tab and saveSettings.                  *)
(*                                                                         *)
(* Specifications:                                                         *)
(*   SpecFn        loadSettings, then selector, renderer and writer twice,  *)
(*                 over bounded vaults and persisted objects                *)
(*   Spec          the plugin in a vault: executions, gate, clock, user     *)
(*   SpecSettings  the settings tab                                         *)
(*   SpecLive      the gate with auto-update on, with fairness              *)
(*   SpecRuns      Spec loaded with auto-update on, host calls return       *)
(*   SpecGate      the gate with the handlers registered several times      *)
(*                                                                         *)
(* Strings that the code inspects character by character (paths, folder    *)
(* prefixes) are sequences of one-character strings.  Text that the code   *)
(* only concatenates (the changelog content) is a sequence of string       *)
(* pieces; the text is the concatenation of the pieces.                    *)
(***************************************************************************)
EXTENDS Integers, Sequences, FiniteSets, TLC

VARIABLES
    files,      \* the vault's markdown files, in the order getMarkdownFiles lists them
    settings,   \* ChangelogPlugin.settings: key -> value
    data,       \* the persisted plugin data (what loadData returns), or NoData
    pc,         \* "init" until onload has run, then "loaded" (SpecFn: the step reached)
    registered, \* number of times enableAutoUpdate registered the three handlers
    timer,      \* milliseconds left on the debouncer's pending timeout, or NoTimer
    args,       \* path of the file passed by the latest call of the debounced handler
    now,        \* the clock, in milliseconds
    runs,       \* the executions of updateChangelog, in the order they started
    notices,    \* the paths named by the Notices shown so far
    saves,      \* the saveSettings calls in flight, oldest first
    recent,     \* result of the latest call of getRecentlyEditedFiles (SpecFn)
    changelog,  \* result of the latest call of generateChangelog (SpecFn)
    hist,       \* history of the latest debounce window (for the properties only)
    ops         \* numbers of user operations (file operations and settings edits) and
                \* of command invocations so far, and the latest text typed or folder
                \* added in the settings tab

vars == <<files, settings, data, pc, registered, timer, args, now, runs,
          notices, saves, recent, changelog, hist, ops>>

-----------------------------------------------------------------------------
(* Bounds of the model *)

MaxFiles == 3     \* SpecFn: length of the vault's file list
MaxRecent == 2    \* SpecFn: largest persisted maxRecentFiles
MaxTime == 400    \* Spec: the clock stops here (timers keep counting)
MaxRuns == 2      \* Spec: executions of updateChangelog per behaviour
MaxOps == 2       \* Spec: file operations and settings edits of the user per behaviour

-----------------------------------------------------------------------------
(* Strings *)

\* String.prototype.startsWith on character sequences
StartsWith(s, prefix) ==
    /\ Len(prefix) <= Len(s)
    /\ SubSeq(s, 1, Len(prefix)) = prefix

PathChangelog == <<"C","h","a","n","g","e","l","o","g",".","m","d">>
PathA == <<"a",".","m","d">>
PathPx == <<"P","/","x",".","m","d">>
PathPsy == <<"P","s","/","y",".","m","d">>

\* The documents of the model: path and basename as the host's TFile exposes them
Docs ==
    { [path |-> PathChangelog, basename |-> "Changelog"],
      [path |-> PathA, basename |-> "a"],
      [path |-> PathPx, basename |-> "x"],
      [path |-> PathPsy, basename |-> "y"] }

MTimes == {100, 200}

FormatDefault == <<"YYYY", "-", "MM", "-", "DD", "[T]", "HH", "mm">>
FormatMillis == <<"x">>

\* zero-padded decimal numeral of n, width 2 or 3
Pad2(n) == IF n < 10 THEN "0" \o ToString(n) ELSE ToString(n)
Pad3(n) == IF n < 10 THEN "00" \o ToString(n)
           ELSE IF n < 100 THEN "0" \o ToString(n) ELSE ToString(n)

\* moment(mtime).format(fmt), for a timestamp of 1970-01-01 (UTC) and the
\* tokens of the formats above: one output piece per format token.
FormatToken(mtime, tok) ==
    CASE tok = "YYYY" -> "1970"
      [] tok = "MM"   -> "01"
      [] tok = "DD"   -> "01"
      [] tok = "HH"   -> Pad2(mtime \div 3600000)
      [] tok = "mm"   -> Pad2((mtime \div 60000) % 60)
      [] tok = "ss"   -> Pad2((mtime \div 1000) % 60)
      [] tok = "SSS"  -> Pad3(mtime % 1000)
      [] tok = "x"    -> ToString(mtime)
      [] tok = "X"    -> ToString(mtime \div 1000)
      [] tok = "[T]"  -> "T"
      [] tok = "[Invalid date]" -> "Invalid date"
      [] OTHER        -> tok

MomentFormat(mtime, fmt) == [i \in 1..Len(fmt) |-> FormatToken(mtime, fmt[i])]

-----------------------------------------------------------------------------
(* Settings *)

DEFAULT_SETTINGS ==
    [ autoUpdate      |-> FALSE,
      changelogPath   |-> PathChangelog,
      datetimeFormat  |-> FormatDefault,
      maxRecentFiles  |-> 25,
      excludedFolders |-> <<>> ]

NoData == [none |-> TRUE]

\* loadData does not return: the host rejects (the stored data cannot be read)
LoadRejects == [rejects |-> TRUE]

\* the two spreads in the other order: { ...loadedSettings, ...DEFAULT_SETTINGS }
MergeSettingsDefaultsLast(defaults, loadedSettings) ==
    IF loadedSettings = NoData THEN defaults
    ELSE [k \in DOMAIN defaults \cup DOMAIN loadedSettings |->
            IF k \in DOMAIN defaults THEN defaults[k] ELSE loadedSettings[k]]

\* { ...DEFAULT_SETTINGS, ...loadedSettings }: every key of either object,
\* the loaded value where the loaded object has the key.  Spreading null
\* (no persisted data) adds nothing.
MergeSettings(defaults, loadedSettings) ==
    IF loadedSettings = NoData THEN defaults
    ELSE [k \in DOMAIN defaults \cup DOMAIN loadedSettings |->
            IF k \in DOMAIN loadedSettings THEN loadedSettings[k] ELSE defaults[k]]

\* this.settings.useWikiLinks as a condition: a key the object lacks reads
\* as undefined, which is falsy
UseWikiLinks(s) == "useWikiLinks" \in DOMAIN s /\ s.useWikiLinks = TRUE

-----------------------------------------------------------------------------
(* File selector *)

\* KeepFile without the test of the changelog's own path
KeepFileFoldersOnly(file, s) ==
    \A i \in 1..Len(s.excludedFolders) : ~StartsWith(file.path, s.excludedFolders[i])

\* the filter callback of getRecentlyEditedFiles
KeepFile(file, s) ==
    /\ file.path # s.changelogPath
    /\ \A i \in 1..Len(s.excludedFolders) : ~StartsWith(file.path, s.excludedFolders[i])

RECURSIVE Filter(_, _)
Filter(fs, s) ==
    IF fs = <<>> THEN <<>>
    ELSE IF KeepFile(Head(fs), s) THEN <<Head(fs)>> \o Filter(Tail(fs), s)
    ELSE Filter(Tail(fs), s)

\* InsertDesc with the comparator's operands swapped (oldest first)
RECURSIVE InsertAsc(_, _)
InsertAsc(sorted, f) ==
    IF sorted = <<>> THEN <<f>>
    ELSE IF Head(sorted).mtime <= f.mtime
         THEN <<Head(sorted)>> \o InsertAsc(Tail(sorted), f)
         ELSE <<f>> \o sorted

\* InsertDesc putting f before the elements of equal mtime
RECURSIVE InsertDescTiesFirst(_, _)
InsertDescTiesFirst(sorted, f) ==
    IF sorted = <<>> THEN <<f>>
    ELSE IF Head(sorted).mtime > f.mtime
         THEN <<Head(sorted)>> \o InsertDescTiesFirst(Tail(sorted), f)
         ELSE <<f>> \o sorted

\* Array.prototype.sort with the comparator (a, b) => b.stat.mtime - a.stat.mtime:
\* a stable sort, most recent first.  InsertDesc puts f behind every element
\* that does not sort after it.
RECURSIVE InsertDesc(_, _)
InsertDesc(sorted, f) ==
    IF sorted = <<>> THEN <<f>>
    ELSE IF Head(sorted).mtime >= f.mtime
         THEN <<Head(sorted)>> \o InsertDesc(Tail(sorted), f)
         ELSE <<f>> \o sorted

RECURSIVE SortDesc(_)
SortDesc(fs) ==
    IF fs = <<>> THEN <<>>
    ELSE InsertDesc(SortDesc(SubSeq(fs, 1, Len(fs) - 1)), fs[Len(fs)])

\* slice(1, n): the first element is dropped
SliceFromSecond(fs, n) == SubSeq(fs, 2, IF n < Len(fs) THEN n ELSE Len(fs))

\* Array.prototype.slice(0, n) for an integer n >= 0
Slice(fs, n) == SubSeq(fs, 1, IF n < Len(fs) THEN n ELSE Len(fs))

GetRecentlyEditedFiles(fs, s) == Slice(SortDesc(Filter(fs, s)), s.maxRecentFiles)

-----------------------------------------------------------------------------
(* Text renderer *)

\* the separator of the template literal in generateChangelog, character by
\* character as the source file spells it: space, U+00C2, U+00B7, space
Separator == <<" ", "U+00C2", "U+00B7", " ">>

\* space, middle dot (U+00B7), space
MiddleDot == <<" ", "U+00B7", " ">>

FileName(file, s) ==
    IF UseWikiLinks(s) THEN <<"[[", file.basename, "]]">> ELSE <<file.basename>>

\* one iteration of the forEach of generateChangelog
EntryLine(file, s) ==
    <<"- ">> \o MomentFormat(file.mtime, s.datetimeFormat) \o Separator
        \o FileName(file, s) \o <<"\n">>

RECURSIVE ConcatLines(_, _)
ConcatLines(fs, s) ==
    IF fs = <<>> THEN <<>>
    ELSE EntryLine(Head(fs), s) \o ConcatLines(Tail(fs), s)

GenerateChangelog(fs, s) == ConcatLines(GetRecentlyEditedFiles(fs, s), s)

\* the lines of a text: the pieces before each "\n" piece
RECURSIVE SplitLines(_, _)
SplitLines(text, line) ==
    IF text = <<>> THEN (IF line = <<>> THEN <<>> ELSE <<line>>)
    ELSE IF Head(text) = "\n" THEN <<line>> \o SplitLines(Tail(text), <<>>)
    ELSE SplitLines(Tail(text), Append(line, Head(text)))

Lines(text) == SplitLines(text, <<>>)

-----------------------------------------------------------------------------
(* The plugin before onload: the field initialisers, nothing registered *)

NoTimer == -1
NoArgs == <<>>

\* History of the latest debounce window: n events so far, first/last = time
\* since its first/latest event (saturating at the timeout), other = every
\* event was for a file other than the changelog and changelogPath has not
\* been edited since the window opened, started = its expiry started an
\* execution.  Frozen when the window's timer expires, replaced when the next
\* one opens.
IdleHist == [n |-> 0, first |-> 0, last |-> 0, other |-> TRUE, started |-> FALSE]

\* nothing typed in the settings tab yet
NoInput == [n |-> 0, setting |-> "none", value |-> <<>>]

PluginIdle ==
    /\ pc = "init"
    /\ settings = DEFAULT_SETTINGS
    /\ registered = 0
    /\ timer = NoTimer
    /\ args = NoArgs
    /\ runs = <<>>
    /\ notices = <<>>
    /\ saves = <<>>
    /\ recent = <<>>
    /\ changelog = <<>>
    /\ hist = IdleHist
    /\ ops = [user |-> 0, cmds |-> 0, input |-> NoInput]

-----------------------------------------------------------------------------
(* The vault and the writer *)

\* the vault's folders
Folders == {<<"P">>, <<"P", "s">>}

BasenameOf(path) == (CHOOSE d \in Docs : d.path = path).basename

HasFile(fs, path) == \E i \in 1..Len(fs) : fs[i].path = path

FileAt(fs, path) == fs[CHOOSE i \in 1..Len(fs) : fs[i].path = path]

\* vault.getAbstractFileByPath as writeToFile uses its result:
\* a TFile, something that is not a TFile, or null
GetAbstractFileByPath(fs, path) ==
    IF HasFile(fs, path) THEN "TFile"
    ELSE IF path \in Folders THEN "TFolder"
    ELSE "null"

\* vault.modify that appends to the file instead of replacing its content
VaultModifyAppend(fs, path, content, t) ==
    [i \in 1..Len(fs) |->
        IF fs[i].path = path
        THEN [fs[i] EXCEPT !.content = @ \o content, !.mtime = t]
        ELSE fs[i]]

\* vault.modify(file, content): the file's content is replaced
VaultModify(fs, path, content, t) ==
    [i \in 1..Len(fs) |->
        IF fs[i].path = path
        THEN [fs[i] EXCEPT !.content = content, !.mtime = t]
        ELSE fs[i]]

\* vault.create(path, ""): a new empty file, listed last
VaultCreate(fs, path, t) ==
    Append(fs, [path |-> path, basename |-> BasenameOf(path), mtime |-> t,
                content |-> <<>>])

\* writeToFile appending to an existing file
WriteToFileAppend(fs, path, content, t) ==
    IF HasFile(fs, path) THEN VaultModifyAppend(fs, path, content, t)
    ELSE VaultModify(VaultCreate(fs, path, t), path, content, t)

\* writeToFile run to its end with nothing else changing the vault meanwhile
WriteToFile(fs, path, content, t) ==
    CASE GetAbstractFileByPath(fs, path) = "null" ->
            VaultModify(VaultCreate(fs, path, t), path, content, t)
      [] GetAbstractFileByPath(fs, path) = "TFile" ->
            VaultModify(fs, path, content, t)
      [] OTHER -> fs

-----------------------------------------------------------------------------
(* SpecFn: loadSettings, then the selector, the renderer and the writer      *)
(* applied twice, to inputs drawn from bounded sets                         *)

EmptyData == [k \in {} |-> TRUE]

\* persisted objects: each key present or not
FnData ==
    { p @@ m @@ e @@ w @@ h @@ f :
        p \in {EmptyData, [changelogPath |-> PathA]},
        m \in {EmptyData} \cup {[maxRecentFiles |-> n] : n \in 1..MaxRecent},
        e \in {EmptyData, [excludedFolders |-> <<<<"P">>>>],
               [excludedFolders |-> <<<<"A", "/">>, <<"P", "/">>>>]},
        w \in {EmptyData, [useWikiLinks |-> TRUE], [useWikiLinks |-> FALSE]},
        h \in {EmptyData, [changelogHeading |-> ""], [changelogHeading |-> "# Log"]},
        f \in {EmptyData, [datetimeFormat |-> FormatMillis]} }

\* lists of up to MaxFiles documents with distinct paths
FnFiles ==
    UNION { { fs \in [1..n -> [path : {d.path : d \in Docs},
                               basename : {d.basename : d \in Docs},
                               mtime : MTimes, content : {<<>>}]] :
                /\ \A i \in 1..n :
                      [path |-> fs[i].path, basename |-> fs[i].basename] \in Docs
                /\ \A i, j \in 1..n : i # j => fs[i].path # fs[j].path }
            : n \in 0..MaxFiles }

InitFn ==
    /\ PluginIdle
    /\ files \in FnFiles
    /\ data \in {NoData} \cup FnData
    /\ now = 300

FnLoadSettings ==
    /\ pc = "init"
    /\ settings' = MergeSettings(DEFAULT_SETTINGS, data)
    /\ pc' = "loaded"
    /\ UNCHANGED <<files, data, registered, timer, args, now, runs, notices, saves,
                   recent, changelog, hist, ops>>

\* getRecentlyEditedFiles, after loadSettings and again after a first full
\* execution
FnSelect ==
    /\ \/ pc = "loaded"
       \/ pc = "written" /\ Len(runs) < 2
    /\ recent' = GetRecentlyEditedFiles(files, settings)
    /\ pc' = "selected"
    /\ UNCHANGED <<files, settings, data, registered, timer, args, now, runs, notices,
                   saves, changelog, hist, ops>>

FnGenerate ==
    /\ pc = "selected"
    /\ changelog' = GenerateChangelog(files, settings)
    /\ pc' = "generated"
    /\ UNCHANGED <<files, settings, data, registered, timer, args, now, runs, notices,
                   saves, recent, hist, ops>>

\* writeToFile(this.settings.changelogPath, changelog), run to its end
FnWrite ==
    /\ pc = "generated"
    /\ files' = WriteToFile(files, settings.changelogPath, changelog, now)
    /\ runs' = Append(runs, [ trigger |-> "manual",
                              path    |-> settings.changelogPath,
                              content |-> changelog,
                              created |-> ~HasFile(files, settings.changelogPath),
                              pc      |-> "done" ])
    /\ pc' = "written"
    /\ UNCHANGED <<settings, data, registered, timer, args, now, notices, saves,
                   recent, changelog, hist, ops>>

NextFn == FnLoadSettings \/ FnSelect \/ FnGenerate \/ FnWrite

SpecFn == InitFn /\ [][NextFn]_vars

-----------------------------------------------------------------------------
(* Spec: executions of updateChangelog, the change gate, the settings tab *)

\* the timeout passed to debounce
DebounceMs == 200

\* the step of the clock
TickMs == DebounceMs \div 2

Min(a, b) == IF a < b THEN a ELSE b

\* updateChangelog up to its first suspension point: the text is rendered,
\* the target path read and looked up.  The execution then waits for
\* vault.create ("create") or vault.modify ("modify"), or has ended with the
\* Notice of writeToFile ("notafile").
NewRun(trigger, fs, s) ==
    LET found == GetAbstractFileByPath(fs, s.changelogPath) IN
    [ trigger |-> trigger,
      path    |-> s.changelogPath,
      content |-> GenerateChangelog(fs, s),
      created |-> FALSE,
      pc      |-> CASE found = "null"  -> "create"
                    [] found = "TFile" -> "modify"
                    [] OTHER           -> "notafile" ]

\* updateChangelog without the Notice of writeToFile
StartRunSilent(trigger) ==
    /\ runs' = Append(runs, NewRun(trigger, files, settings))
    /\ notices' = notices

\* one execution for each registration of the handlers
StartRunPerRegistration(trigger) ==
    LET run == NewRun(trigger, files, settings)
        n   == IF trigger = "auto" THEN registered ELSE 1 IN
    /\ runs' = runs \o [k \in 1..n |-> run]
    /\ notices' = IF run.pc = "notafile" THEN Append(notices, run.path) ELSE notices

StartRun(trigger) ==
    LET run == NewRun(trigger, files, settings) IN
    /\ runs' = Append(runs, run)
    /\ notices' = IF run.pc = "notafile" THEN Append(notices, run.path) ELSE notices

\* the debouncer with every call restarting the timeout
DebouncedCallReset(t) == DebounceMs

\* one call of the function made by debounce(cb, 200).  obsidian's
\* debounce(cb, timeout, resetTimer) restarts a pending timeout only when
\* resetTimer is true; onload passes no third argument, so a pending timeout
\* is left as it is, and one is started when none is pending
DebouncedCall(t) == IF t = NoTimer THEN DebounceMs ELSE t

\* each registration of the handlers calls the one debounced function
RECURSIVE CallDebounced(_, _)
CallDebounced(t, n) == IF n = 0 THEN t ELSE CallDebounced(DebouncedCall(t), n - 1)

\* the vault emits modify, delete or rename for the file at path
VaultEvent(path) ==
    IF registered > 0
    THEN /\ timer' = CallDebounced(timer, registered)
         /\ args' = path
         /\ hist' = IF timer = NoTimer
                    THEN [n |-> 1, first |-> 0, last |-> 0,
                          other |-> path # settings.changelogPath, started |-> FALSE]
                    ELSE [hist EXCEPT !.n = @ + 1, !.last = 0,
                                      !.other = @ /\ path # settings.changelogPath]
    ELSE UNCHANGED <<timer, args, hist>>

\* onVaultChange without the comparison of the paths
OnVaultChangeAlways(path, s) == TRUE

\* onVaultChange with the comparison inverted
OnVaultChangeInverted(path, s) == path = s.changelogPath

\* the condition under which onVaultChange calls updateChangelog
OnVaultChange(path, s) == path # s.changelogPath

InitVaults ==
    { << [path |-> PathA, basename |-> "a", mtime |-> 100, content |-> <<"text">>],
         [path |-> PathPx, basename |-> "x", mtime |-> 200, content |-> <<"text">>] >>,
      << [path |-> PathChangelog, basename |-> "Changelog", mtime |-> 200,
          content |-> <<"old">>],
         [path |-> PathA, basename |-> "a", mtime |-> 100, content |-> <<"text">>] >> }

InitData ==
    { NoData,
      [autoUpdate |-> TRUE],
      [autoUpdate |-> TRUE, maxRecentFiles |-> 1, useWikiLinks |-> TRUE,
       datetimeFormat |-> FormatMillis] }

Init ==
    /\ PluginIdle
    /\ files \in InitVaults
    /\ data \in InitData
    /\ now = 300

\* onload: loadSettings, the command, the debounced handler, enableAutoUpdate
\* A rejection of loadData leaves onload at its first line ("crashed").
OnLoad ==
    /\ pc = "init"
    /\ IF data = LoadRejects
       THEN /\ pc' = "crashed"
            /\ UNCHANGED <<settings, registered>>
       ELSE /\ pc' = "loaded"
            /\ settings' = MergeSettings(DEFAULT_SETTINGS, data)
            /\ registered' = IF settings'.autoUpdate THEN 1 ELSE 0
    /\ UNCHANGED <<files, data, timer, args, now, runs, notices, saves, recent,
                   changelog, hist, ops>>

\* the command's callback starting an execution only while auto-update is on
CommandCallbackIfAuto ==
    IF settings.autoUpdate THEN StartRun("manual") ELSE UNCHANGED <<runs, notices>>

\* the callback of the command: () => this.updateChangelog()
CommandCallback == StartRun("manual")

\* the user invokes the "Update Changelog" command
ManualUpdate ==
    /\ pc = "loaded"
    /\ Len(runs) < MaxRuns
    /\ ops' = [ops EXCEPT !.cmds = @ + 1]
    /\ CommandCallback
    /\ UNCHANGED <<files, settings, data, pc, registered, timer, args, now, saves,
                   recent, changelog, hist>>

\* the debounced handler run by an interval: the timeout is started again
TimerFireRepeats ==
    /\ timer = 0
    /\ Len(runs) < MaxRuns
    /\ timer' = DebounceMs
    /\ UNCHANGED <<args, hist>>
    /\ IF OnVaultChange(args, settings)
       THEN StartRun("auto")
       ELSE UNCHANGED <<runs, notices>>
    /\ UNCHANGED <<files, settings, data, pc, registered, now, saves, recent, changelog,
                   ops>>

\* the debouncer's timeout expires: onVaultChange runs with the latest file
TimerFire ==
    /\ timer = 0
    /\ OnVaultChange(args, settings) => Len(runs) < MaxRuns
    /\ timer' = NoTimer
    /\ args' = NoArgs
    /\ hist' = [hist EXCEPT !.started = OnVaultChange(args, settings)]
    /\ IF OnVaultChange(args, settings)
       THEN StartRun("auto")
       ELSE UNCHANGED <<runs, notices>>
    /\ UNCHANGED <<files, settings, data, pc, registered, now, saves, recent, changelog,
                   ops>>

\* vault.create of writeToFile returns: the file exists, or the call threw
\* because the path is occupied by now
CreateStep(i) ==
    /\ runs[i].pc = "create"
    /\ IF GetAbstractFileByPath(files, runs[i].path) = "null"
       THEN /\ files' = VaultCreate(files, runs[i].path, now)
            /\ runs' = [runs EXCEPT ![i].pc = "modify", ![i].created = TRUE]
       ELSE /\ runs' = [runs EXCEPT ![i].pc = "failed"]
            /\ UNCHANGED files
    /\ UNCHANGED <<settings, data, pc, registered, timer, args, now, notices, saves,
                   recent, changelog, hist, ops>>

\* vault.modify of writeToFile returns: the content is written, and the vault
\* has emitted modify for the changelog file
ModifyStep(i) ==
    /\ runs[i].pc = "modify"
    /\ files' = VaultModify(files, runs[i].path, runs[i].content, now)
    /\ runs' = [runs EXCEPT ![i].pc = "done"]
    /\ VaultEvent(runs[i].path)
    /\ UNCHANGED <<settings, data, pc, registered, now, notices, saves, recent,
                   changelog, ops>>

\* a file an execution is about to write is not deleted or renamed meanwhile
Held(path) == \E i \in 1..Len(runs) : runs[i].pc = "modify" /\ runs[i].path = path

\* the user edits a file
UserModify(i) ==
    /\ ops.user < MaxOps
    /\ ops' = [ops EXCEPT !.user = @ + 1]
    /\ files' = [files EXCEPT ![i].mtime = now]
    /\ VaultEvent(files[i].path)
    /\ UNCHANGED <<settings, data, pc, registered, now, runs, notices, saves, recent,
                   changelog>>

\* the user deletes a file
UserDelete(i) ==
    /\ ops.user < MaxOps
    /\ ops' = [ops EXCEPT !.user = @ + 1]
    /\ ~Held(files[i].path)
    /\ files' = SubSeq(files, 1, i - 1) \o SubSeq(files, i + 1, Len(files))
    /\ VaultEvent(files[i].path)
    /\ UNCHANGED <<settings, data, pc, registered, now, runs, notices, saves, recent,
                   changelog>>

\* the user renames a file to a free path; the event carries the renamed file
UserRename(i, path) ==
    /\ ops.user < MaxOps
    /\ ops' = [ops EXCEPT !.user = @ + 1]
    /\ ~Held(files[i].path)
    /\ GetAbstractFileByPath(files, path) = "null"
    /\ files' = [files EXCEPT ![i].path = path, ![i].basename = BasenameOf(path)]
    /\ VaultEvent(path)
    /\ UNCHANGED <<settings, data, pc, registered, now, runs, notices, saves, recent,
                   changelog>>

\* the toggle stopping the auto-triggered executions in flight when turned off
ToggleAutoUpdateCancels ==
    /\ pc = "loaded"
    /\ ops.user < MaxOps
    /\ ops' = [ops EXCEPT !.user = @ + 1]
    /\ settings' = [settings EXCEPT !.autoUpdate = ~@]
    /\ saves' = Append(saves, [snapshot |-> settings', enable |-> settings'.autoUpdate])
    /\ runs' = [i \in 1..Len(runs) |->
                  IF /\ ~settings'.autoUpdate
                     /\ runs[i].trigger = "auto"
                     /\ runs[i].pc \in {"create", "modify"}
                  THEN [runs[i] EXCEPT !.pc = "cancelled"]
                  ELSE runs[i]]
    /\ UNCHANGED <<files, data, pc, registered, timer, args, now, notices,
                   recent, changelog, hist>>

\* the "Auto update" toggle, up to its await of saveSettings
ToggleAutoUpdate ==
    /\ pc = "loaded"
    /\ ops.user < MaxOps
    /\ ops' = [ops EXCEPT !.user = @ + 1]
    /\ settings' = [settings EXCEPT !.autoUpdate = ~@]
    /\ saves' = Append(saves, [snapshot |-> settings', enable |-> settings'.autoUpdate])
    /\ UNCHANGED <<files, data, pc, registered, timer, args, now, runs, notices,
                   recent, changelog, hist>>

\* the "Changelog path" text field, up to its await of saveSettings
SetChangelogPath(path) ==
    /\ pc = "loaded"
    /\ ops.user < MaxOps
    /\ ops' = [ops EXCEPT !.user = @ + 1]
    /\ path # settings.changelogPath
    /\ settings' = [settings EXCEPT !.changelogPath = path]
    /\ saves' = Append(saves, [snapshot |-> settings', enable |-> FALSE])
    /\ hist' = IF timer = NoTimer THEN hist ELSE [hist EXCEPT !.other = FALSE]
    /\ UNCHANGED <<files, data, pc, registered, timer, args, now, runs, notices,
                   recent, changelog>>

\* saveData returns; the toggle's handler goes on to enableAutoUpdate
SaveDone ==
    /\ saves # <<>>
    /\ data' = Head(saves).snapshot
    /\ saves' = Tail(saves)
    /\ registered' = IF Head(saves).enable /\ settings.autoUpdate
                     THEN registered + 1 ELSE registered
    /\ UNCHANGED <<files, settings, pc, timer, args, now, runs, notices, recent,
                   changelog, hist, ops>>

\* time passes
Tick ==
    /\ now' = Min(now + TickMs, MaxTime)
    /\ timer' = IF timer > 0 THEN (IF timer > TickMs THEN timer - TickMs ELSE 0) ELSE timer
    /\ hist' = IF timer = NoTimer THEN hist
               ELSE [hist EXCEPT !.first = Min(@ + TickMs, DebounceMs),
                                 !.last = Min(@ + TickMs, DebounceMs)]
    /\ UNCHANGED <<files, settings, data, pc, registered, args, runs, notices, saves,
                   recent, changelog, ops>>

\* the path of a folder of the vault
PathFolder == <<"P">>

PathChoices == {PathChangelog, PathA, PathFolder}

Next ==
    \/ OnLoad
    \/ ManualUpdate
    \/ TimerFire
    \/ \E i \in 1..Len(runs) : CreateStep(i) \/ ModifyStep(i)
    \/ \E i \in 1..Len(files) : UserModify(i) \/ UserDelete(i)
    \/ \E i \in 1..Len(files) : UserRename(i, PathPsy)
    \/ ToggleAutoUpdate
    \/ \E path \in PathChoices : SetChangelogPath(path)
    \/ SaveDone
    \/ Tick

Spec == Init /\ [][Next]_vars

-----------------------------------------------------------------------------
(* SpecSettings: the settings tab *)

Digits == <<"0", "1", "2", "3", "4", "5", "6", "7", "8", "9">>

IsDigits(text) == \A i \in 1..Len(text) : \E d \in 1..Len(Digits) : Digits[d] = text[i]

DigitValue(c) == (CHOOSE d \in 1..Len(Digits) : Digits[d] = c) - 1

RECURSIVE Decimal(_)
Decimal(text) ==
    IF text = <<>> THEN 0
    ELSE Decimal(SubSeq(text, 1, Len(text) - 1)) * 10 + DigitValue(text[Len(text)])

\* Number(value) for the empty text, decimal numerals with an optional minus
\* sign, and texts that are no numeric literal (NaN)
Number(value) ==
    IF value = <<>> THEN [nan |-> FALSE, val |-> 0]
    ELSE IF IsDigits(value) THEN [nan |-> FALSE, val |-> Decimal(value)]
    ELSE IF Head(value) = "-" /\ Len(value) > 1 /\ IsDigits(Tail(value))
         THEN [nan |-> FALSE, val |-> 0 - Decimal(Tail(value))]
    ELSE [nan |-> TRUE, val |-> 0]

\* the user types into a text field, presses Add, or clicks the remove button
\* of a folder
Typed(setting, value) ==
    ops' = [ops EXCEPT !.user = @ + 1,
                       !.input = [n |-> @.n + 1, setting |-> setting, value |-> value]]

\* saveSettings is called: saveData is handed the settings as they are now
SaveSettings == saves' = Append(saves, [snapshot |-> settings', enable |-> FALSE])

InvalidFormat == <<"[Invalid date]">>

\* the "Datetime format" text field
SetDatetimeFormat(format) ==
    /\ pc = "loaded"
    /\ ops.user < MaxOps
    /\ Typed("datetimeFormat", format)
    /\ IF MomentFormat(now, format) = <<"Invalid date">>
       THEN /\ notices' = Append(notices, <<"Invalid datetime format">>)
            /\ UNCHANGED <<settings, saves>>
       ELSE /\ settings' = [settings EXCEPT !.datetimeFormat = format]
            /\ SaveSettings
            /\ UNCHANGED notices
    /\ UNCHANGED <<files, data, pc, registered, timer, args, now, runs, recent,
                   changelog, hist>>

\* the "Max recent files" text field accepting every number that is not negative
SetMaxRecentFilesNonNegative(value) ==
    LET numValue == Number(value) IN
    /\ pc = "loaded"
    /\ ops.user < MaxOps
    /\ Typed("maxRecentFiles", value)
    /\ IF numValue.nan \/ numValue.val < 0
       THEN UNCHANGED <<settings, saves>>
       ELSE /\ settings' = [settings EXCEPT !.maxRecentFiles = numValue.val]
            /\ SaveSettings
    /\ UNCHANGED <<files, data, pc, registered, timer, args, now, runs, notices,
                   recent, changelog, hist>>

\* the "Max recent files" text field without the call of saveSettings
SetMaxRecentFilesNoSave(value) ==
    LET numValue == Number(value) IN
    /\ pc = "loaded"
    /\ ops.user < MaxOps
    /\ Typed("maxRecentFiles", value)
    /\ IF numValue.nan \/ numValue.val < 1
       THEN UNCHANGED settings
       ELSE settings' = [settings EXCEPT !.maxRecentFiles = numValue.val]
    /\ UNCHANGED <<files, data, pc, registered, timer, args, now, runs, notices,
                   saves, recent, changelog, hist>>

\* the "Max recent files" text field
SetMaxRecentFiles(value) ==
    LET numValue == Number(value) IN
    /\ pc = "loaded"
    /\ ops.user < MaxOps
    /\ Typed("maxRecentFiles", value)
    /\ IF numValue.nan \/ numValue.val < 1
       THEN UNCHANGED <<settings, saves>>
       ELSE /\ settings' = [settings EXCEPT !.maxRecentFiles = numValue.val]
            /\ SaveSettings
    /\ UNCHANGED <<files, data, pc, registered, timer, args, now, runs, notices,
                   recent, changelog, hist>>

\* Array.prototype.includes
Includes(folders, folder) == \E i \in 1..Len(folders) : folders[i] = folder

\* the Add button pushing whatever the field holds
AddExcludedFolderAlways(folderPath) ==
    /\ pc = "loaded"
    /\ ops.user < MaxOps
    /\ Typed("excludedFolders", folderPath)
    /\ settings' = [settings EXCEPT !.excludedFolders = Append(@, folderPath)]
    /\ SaveSettings
    /\ UNCHANGED <<files, data, pc, registered, timer, args, now, runs, notices,
                   recent, changelog, hist>>

\* the Add button of "Add excluded folder"
AddExcludedFolder(folderPath) ==
    /\ pc = "loaded"
    /\ ops.user < MaxOps
    /\ Typed("excludedFolders", folderPath)
    /\ IF folderPath # <<>> /\ ~Includes(settings.excludedFolders, folderPath)
       THEN /\ settings' = [settings EXCEPT !.excludedFolders = Append(@, folderPath)]
            /\ SaveSettings
       ELSE UNCHANGED <<settings, saves>>
    /\ UNCHANGED <<files, data, pc, registered, timer, args, now, runs, notices,
                   recent, changelog, hist>>

\* Array.prototype.indexOf, from 1, for an element of the array
IndexOf(folders, folder) == CHOOSE i \in 1..Len(folders) :
    /\ folders[i] = folder
    /\ \A j \in 1..(i - 1) : folders[j] # folder

\* Array.prototype.splice(index, 1)
Splice(folders, index) ==
    SubSeq(folders, 1, index - 1) \o SubSeq(folders, index + 1, Len(folders))

\* the remove button of the i-th folder of the list
RemoveExcludedFolder(i) ==
    /\ pc = "loaded"
    /\ ops.user < MaxOps
    /\ Typed("removeExcludedFolder", settings.excludedFolders[i])
    /\ settings' = [settings EXCEPT !.excludedFolders =
                        Splice(@, IndexOf(@, settings.excludedFolders[i]))]
    /\ SaveSettings
    /\ UNCHANGED <<files, data, pc, registered, timer, args, now, runs, notices,
                   recent, changelog, hist>>

FormatChoices == {FormatDefault, FormatMillis, InvalidFormat}

CountChoices == {<<"2">>, <<"1", "0">>, <<"0">>, <<"-", "1">>, <<"a", "b", "c">>, <<>>}

FolderChoices == {<<"P", "/">>, <<"P", "s">>, <<>>}

\* persisted data: none, unreadable, written by a version without the
\* validation of the settings tab (1.0.0), written by this version
SettingsData ==
    { NoData,
      LoadRejects,
      [maxRecentFiles |-> 0],
      [autoUpdate |-> TRUE, changelogPath |-> PathChangelog,
       datetimeFormat |-> FormatDefault, maxRecentFiles |-> 1,
       excludedFolders |-> <<<<"P", "/">>>>],
      [excludedFolders |-> <<<<"A", "/">>, <<"P", "/">>, <<"P", "s">>>>] }

InitSettings ==
    /\ PluginIdle
    /\ files = << [path |-> PathChangelog, basename |-> "Changelog", mtime |-> 200,
                   content |-> <<"old">>],
                  [path |-> PathA, basename |-> "a", mtime |-> 100, content |-> <<"text">>],
                  [path |-> PathPx, basename |-> "x", mtime |-> 200, content |-> <<"text">>] >>
    /\ data \in SettingsData
    /\ now = 300

NextSettings ==
    \/ OnLoad
    \/ ToggleAutoUpdate
    \/ \E path \in PathChoices : SetChangelogPath(path)
    \/ \E format \in FormatChoices : SetDatetimeFormat(format)
    \/ \E value \in CountChoices : SetMaxRecentFiles(value)
    \/ \E folderPath \in FolderChoices : AddExcludedFolder(folderPath)
    \/ \E i \in 1..Len(settings.excludedFolders) : RemoveExcludedFolder(i)
    \/ SaveDone
    \/ ManualUpdate
    \/ \E i \in 1..Len(runs) : ModifyStep(i)

SpecSettings == InitSettings /\ [][NextSettings]_vars

-----------------------------------------------------------------------------
(* SpecLive: the change gate with auto-update on, under the scheduling of    *)
(* the host: time passes, a timeout that is due fires, host calls return     *)

InitLive ==
    /\ PluginIdle
    /\ files \in InitVaults
    /\ data = [autoUpdate |-> TRUE]
    /\ now = 300

HostStep == \E i \in 1..Len(runs) : CreateStep(i) \/ ModifyStep(i)

NextLive ==
    \/ OnLoad
    \/ TimerFire
    \/ HostStep
    \/ \E i \in 1..Len(files) : UserModify(i) \/ UserDelete(i)
    \/ \E i \in 1..Len(files) : UserRename(i, PathPsy)
    \/ Tick

SpecLive ==
    /\ InitLive
    /\ [][NextLive]_vars
    /\ WF_vars(OnLoad)
    /\ WF_vars(Tick)
    /\ WF_vars(TimerFire)
    /\ WF_vars(HostStep)

-----------------------------------------------------------------------------
(* SpecRuns: the plugin of Spec, loaded with auto-update on, with host calls
   that return *)

InitRuns ==
    /\ PluginIdle
    /\ files \in InitVaults
    /\ data = [autoUpdate |-> TRUE]
    /\ now = 300

SpecRuns ==
    /\ InitRuns
    /\ [][Next]_vars
    /\ WF_vars(HostStep)

-----------------------------------------------------------------------------
(* SpecGate: the loaded plugin with auto-update on and the handlers registered
   once (at load) or several times (at load and by later turns of the toggle
   off and on again, each saved) *)

\* the most registrations of the handlers at the start
MaxReg == 2

\* after onload with autoUpdate true in data.json; each later turn of the
\* toggle has saved the settings
InitGate ==
    /\ pc = "loaded"
    /\ settings = MergeSettings(DEFAULT_SETTINGS, [autoUpdate |-> TRUE])
    /\ registered \in 1..MaxReg
    /\ data = IF registered = 1 THEN [autoUpdate |-> TRUE] ELSE settings
    /\ files \in InitVaults
    /\ timer = NoTimer
    /\ args = NoArgs
    /\ runs = <<>>
    /\ notices = <<>>
    /\ saves = <<>>
    /\ recent = <<>>
    /\ changelog = <<>>
    /\ hist = IdleHist
    /\ ops = [user |-> 0, cmds |-> 0, input |-> NoInput]
    /\ now = 300

NextGate ==
    \/ TimerFire
    \/ HostStep
    \/ \E i \in 1..Len(files) : UserModify(i) \/ UserDelete(i)
    \/ \E i \in 1..Len(files) : UserRename(i, PathPsy)
    \/ ToggleAutoUpdate
    \/ SaveDone
    \/ Tick

SpecGate == InitGate /\ [][NextGate]_vars

-----------------------------------------------------------------------------
(* Properties of the writer and the change gate (Spec) *)

RunCount(rs, trigger) == Cardinality({i \in 1..Len(rs) : rs[i].trigger = trigger})

\* the step is the expiry of the debouncer's timeout
Expiry == timer # NoTimer /\ timer' = NoTimer

\* C3: when an execution of updateChangelog ends without error the file at
\* its target path exists and holds exactly the rendered text (overwritten,
\* not appended); when nothing was at the path the file is first created
\* empty and then written.
C3_OverwriteOrCreate ==
    [][\A i \in 1..Len(runs) :
         /\ (runs[i].pc = "create" /\ runs'[i].pc = "modify") =>
                /\ ~HasFile(files, runs[i].path)
                /\ HasFile(files', runs[i].path)
                /\ FileAt(files', runs[i].path).content = <<>>
         /\ (runs[i].pc # "done" /\ runs'[i].pc = "done") =>
                /\ HasFile(files', runs[i].path)
                /\ FileAt(files', runs[i].path).content = runs[i].content
                /\ Cardinality({j \in 1..Len(files') : files'[j].path = runs[i].path}) = 1
      ]_vars

\* C3 witness: a first execution created the file and wrote its text, a
\* second one rendered another text and the file now holds that text alone.
C3_Witness ==
    /\ Len(runs) = 2
    /\ runs[1].pc = "done" /\ runs[1].created /\ runs[1].content # <<>>
    /\ runs[2].pc = "done" /\ ~runs[2].created
    /\ runs[2].content # runs[1].content
    /\ runs[2].path = runs[1].path
    /\ FileAt(files, runs[2].path).content = runs[2].content

\* C4: auto-triggered executions start only when the timeout expires, one per
\* expiry; the expiry of a window whose events were all for files other than
\* the changelog starts exactly one, which renders the vault and reads the
\* configuration as they are at the expiry.
C4_OneRunPerWindow ==
    [][/\ RunCount(runs', "auto") # RunCount(runs, "auto") =>
            /\ Expiry
            /\ hist.n >= 1
            /\ Len(runs') = Len(runs) + 1
       /\ (Expiry /\ hist.other) =>
            /\ Len(runs') = Len(runs) + 1
            /\ runs'[Len(runs')].trigger = "auto"
            /\ runs'[Len(runs')].content = GenerateChangelog(files, settings)
            /\ runs'[Len(runs')].path = settings.changelogPath
            /\ SubSeq(runs', 1, Len(runs)) = runs
      ]_vars

\* C4 witness: a window of two events has expired and started its one
\* execution.
C4_Witness ==
    /\ timer = NoTimer
    /\ hist.n >= 2 /\ hist.other /\ hist.started
    /\ RunCount(runs, "auto") = 1

C6_OffMeansNoTrigger ==
    [][(pc = "loaded" /\ ~settings.autoUpdate /\ timer = NoTimer) => timer' = NoTimer]_vars

\* C7: every invocation of the command starts an execution in the same step,
\* whatever autoUpdate and the gate are, and that step leaves the gate (timer,
\* remembered file, registrations) as it is.
C7_ManualBypassesGate ==
    [][(ops'.cmds # ops.cmds \/ RunCount(runs', "manual") # RunCount(runs, "manual")) =>
            /\ ops'.cmds = ops.cmds + 1
            /\ Len(runs') = Len(runs) + 1
            /\ runs'[Len(runs')].trigger = "manual"
            /\ runs'[Len(runs')].content = GenerateChangelog(files, settings)
            /\ timer' = timer /\ args' = args /\ registered' = registered
      ]_vars

\* C7 witness: a manual execution was started with auto-update off, another
\* while the gate was pending, and the timeout is still pending.
C7_Witness ==
    /\ RunCount(runs, "manual") = 2
    /\ timer # NoTimer
    /\ ~settings.autoUpdate

\* the step starts an execution of updateChangelog
Starts == Len(runs') = Len(runs) + 1

\* C11: when the target path is occupied by something that is not a regular
\* file (a folder), the execution shows one Notice naming the path, issues no
\* host write (it has ended: neither vault.create nor vault.modify is awaited),
\* does not throw, and leaves the vault unchanged.
C11_NotAFileNotice ==
    [][/\ (Starts /\ settings.changelogPath \in Folders) =>
            /\ runs'[Len(runs')].pc = "notafile"
            /\ notices' = Append(notices, settings.changelogPath)
            /\ files' = files
       /\ \A i \in 1..Len(runs) :
            runs[i].pc = "notafile" => runs'[i] = runs[i]
      ]_vars

\* C11 witness: an execution found a folder at its target path and ended with
\* the Notice; the vault's files are those of the initial vault.
C11_Witness ==
    /\ \E i \in 1..Len(runs) : runs[i].pc = "notafile" /\ runs[i].path = PathFolder
    /\ notices = <<PathFolder>>
    /\ files \in InitVaults

\* the Notices that name the path
NoticesNaming(path) == Cardinality({k \in 1..Len(notices) : notices[k] = path})

\* the executions on the path whose host call (vault.create, vault.modify) failed
Failures(path) ==
    Cardinality({i \in 1..Len(runs) : runs[i].pc = "failed" /\ runs[i].path = path})

\* C12: an execution whose vault.create or vault.modify failed has ended with
\* one Notice naming its target path (one Notice per failure), not with the
\* host's error thrown to its caller.
C12_WriteFailureNotice ==
    \A i \in 1..Len(runs) :
        runs[i].pc = "failed" => NoticesNaming(runs[i].path) = Failures(runs[i].path)

\* the executions with the trigger that are waiting for vault.create or
\* vault.modify
InFlight(trigger) ==
    {i \in 1..Len(runs) : runs[i].trigger = trigger /\ runs[i].pc \in {"create", "modify"}}

\* C19 as claimed: two auto-triggered executions are never in flight together.
C19_NoAutoOverlap == Cardinality(InFlight("auto")) <= 1

\* C19 amended: each expiry of the timeout starts at most one execution and
\* auto-triggered executions start at no other step; a start leaves the
\* executions in flight as they are (nothing waits for them or cancels them).
C19_OneStartPerExpiry ==
    [][/\ RunCount(runs', "auto") <= RunCount(runs, "auto") + 1
       /\ RunCount(runs', "auto") = RunCount(runs, "auto") + 1 =>
            /\ timer = 0 /\ timer' = NoTimer
            /\ runs' = Append(runs, runs'[Len(runs')])
       /\ Len(runs') >= Len(runs)
      ]_vars

\* C19 witness: two auto-triggered executions, of successive windows, are in
\* flight together.
C19_Witness ==
    /\ Cardinality(InFlight("auto")) = 2
    /\ timer = NoTimer

\* the latest vault event, just received, is for a file other than the
\* changelog, and auto-update is on
DocEvent ==
    /\ pc = "loaded" /\ settings.autoUpdate
    /\ timer # NoTimer /\ hist.last = 0
    /\ args # NoArgs /\ args # settings.changelogPath

\* C20: every modify, delete or rename event for a file other than the
\* changelog is eventually followed by the start of an execution.
C20_EventLeadsToRun ==
    \A n \in 0..(MaxRuns - 1) : (DocEvent /\ Len(runs) = n) ~> (Len(runs) > n)

\* the gate is Idle and no execution is waiting for the host
Quiescent == timer = NoTimer /\ InFlight("auto") = {} /\ InFlight("manual") = {}

\* C21: an expiry whose remembered file is the changelog (the latest event
\* was for it, as after the execution's own vault.modify) starts nothing, so
\* executions are at most as many as the user's file operations; once the
\* user's operations have ended the gate returns to Idle with no execution in
\* flight, and stays so.
C21_NoFeedbackLoop ==
    /\ [][/\ (Expiry /\ args = settings.changelogPath) => runs' = runs
          /\ Len(runs') <= ops'.user
         ]_vars
    /\ <>[]Quiescent

\* C21 witness: the one file operation of the user led to an execution; its
\* write opened a window of one event, for the changelog, which has expired
\* without starting an execution.
C21_Witness ==
    /\ ops.user = 1
    /\ Len(runs) = 1 /\ runs[1].pc = "done"
    /\ hist.n = 1 /\ ~hist.other /\ ~hist.started
    /\ Quiescent

-----------------------------------------------------------------------------
(* Properties of loadSettings and the settings tab (SpecSettings) *)

\* the persisted data is not a valid configuration: it cannot be read, or
\* its maxRecentFiles is not an integer >= 1
Malformed ==
    \/ data = LoadRejects
    \/ data # NoData /\ "maxRecentFiles" \in DOMAIN data /\ data.maxRecentFiles < 1

\* C15: with malformed persisted data, onload completes (the command and the
\* handlers are set up) with the settings equal to the defaults, and no
\* Notice is shown.
C15_MalformedFallsBack ==
    (pc # "init" /\ ops.user = 0 /\ Malformed) =>
        /\ pc = "loaded"
        /\ settings = DEFAULT_SETTINGS
        /\ notices = <<>>

\* C16: once loadSettings has run, maxRecentFiles is an integer >= 1, whatever
\* was persisted and whatever has been typed in the settings tab since.
C16_MaxRecentFilesPositive ==
    pc = "loaded" => settings.maxRecentFiles >= 1

RejectedCounts == {<<"0">>, <<"-", "1">>, <<"a", "b", "c">>, <<>>}

RejectedFormats == {InvalidFormat}

\* the text typed in the step is one the settings tab rejects
RejectedInput ==
    /\ ops'.input.n # ops.input.n
    /\ \/ ops'.input.setting = "maxRecentFiles" /\ ops'.input.value \in RejectedCounts
       \/ ops'.input.setting = "datetimeFormat" /\ ops'.input.value \in RejectedFormats

\* C17: typing a max-file count that is no number or is < 1, or a datetime
\* format that fails the validation, changes neither the settings nor the
\* persisted data and calls no saveSettings; no execution renders with a
\* rejected format.
C17_RejectedInputNoEffect ==
    [][/\ RejectedInput =>
            /\ settings' = settings
            /\ data' = data
            /\ saves' = saves
       /\ Starts =>
            /\ settings.datetimeFormat \notin RejectedFormats
            /\ runs'[Len(runs')].content = GenerateChangelog(files, settings)
      ]_vars

\* C17 witness: a datetime format was rejected (its Notice is shown), then
\* the count "0"; the settings are the loaded ones, nothing was saved, and an
\* execution has rendered and written since.
C17_Witness ==
    /\ pc = "loaded"
    /\ notices = << <<"Invalid datetime format">> >>
    /\ ops.input.n = 2
    /\ ops.input.setting = "maxRecentFiles" /\ ops.input.value = <<"0">>
    /\ settings = MergeSettings(DEFAULT_SETTINGS, data)
    /\ settings.maxRecentFiles = 1
    /\ saves = <<>>
    /\ Len(runs) = 1 /\ runs[1].pc = "done"

\* C18: every step of the settings tab that changes the settings calls
\* saveSettings with the changed settings; whenever no save is in flight the
\* persisted data yields the in-memory settings (loading it again gives them).
C18_PersistedOnEveryChange ==
    [][/\ (pc = "loaded" /\ settings' # settings) =>
            /\ Len(saves') = Len(saves) + 1
            /\ saves'[Len(saves')].snapshot = settings'
            /\ SubSeq(saves', 1, Len(saves)) = saves
       /\ (pc' = "loaded" /\ saves' = <<>>) =>
            MergeSettings(DEFAULT_SETTINGS, data') = settings'
      ]_vars

\* C18 witness: a count and a folder were accepted, both saves have
\* completed, and the persisted data is the in-memory settings.
C18_Witness ==
    /\ pc = "loaded"
    /\ ops.user = 2
    /\ saves = <<>>
    /\ data = settings
    /\ settings.maxRecentFiles = 10
    /\ settings.excludedFolders = << <<"P", "s">> >>

NoDuplicate(folders) == \A i, j \in 1..Len(folders) : i # j => folders[i] # folders[j]

\* no folder twice and no empty prefix
WellFormed(folders) == NoDuplicate(folders) /\ ~Includes(folders, <<>>)

\* the step is the press of Add or the click of a remove button
FolderStep(setting) == ops'.input.n # ops.input.n /\ ops'.input.setting = setting

\* C28: from a list without duplicates and without the empty string, every
\* step of the settings tab leaves such a list; Add appends the typed folder
\* at the end when it is not empty and not in the list, and otherwise changes
\* nothing; the remove button takes out the clicked folder and keeps the
\* others in their order; no other step changes the list.
C28_ExcludedFoldersWellFormed ==
    [][(pc = "loaded" /\ WellFormed(settings.excludedFolders)) =>
         LET old == settings.excludedFolders
             new == settings'.excludedFolders
             v   == ops'.input.value IN
         /\ WellFormed(new)
         /\ FolderStep("excludedFolders") =>
               new = IF v # <<>> /\ ~Includes(old, v) THEN old \o <<v>> ELSE old
         /\ FolderStep("removeExcludedFolder") =>
               /\ ~Includes(new, v)
               /\ \E k \in 1..Len(old) :
                     /\ old[k] = v
                     /\ new = [j \in 1..(Len(old) - 1) |-> IF j < k THEN old[j] ELSE old[j + 1]]
         /\ ~(FolderStep("excludedFolders") \/ FolderStep("removeExcludedFolder")) =>
               new = old
      ]_vars

\* C28 witness: the middle folder of three was removed, then added again: it
\* is now the last.
C28_Witness ==
    /\ pc = "loaded"
    /\ ops.user = 2
    /\ ops.input.setting = "excludedFolders"
    /\ settings.excludedFolders = << <<"A", "/">>, <<"P", "s">>, <<"P", "/">> >>

-----------------------------------------------------------------------------
(* Properties of the selector and the renderer (SpecFn) *)

\* p is a literal prefix of s: s begins with the characters of p
IsPrefix(p, s) == \E k \in 0..Len(s) : SubSeq(s, 1, k) = p

ExcludedFolderSet(s) == {s.excludedFolders[i] : i \in 1..Len(s.excludedFolders)}

Selected == pc \in {"selected", "generated"}

\* C1: the list returned by getRecentlyEditedFiles contains neither the
\* document whose path equals changelogPath nor a document whose path has a
\* string of excludedFolders as a literal prefix.
C1_SelectorExcludes ==
    Selected =>
        \A i \in 1..Len(recent) :
            /\ recent[i].path # settings.changelogPath
            /\ \A folder \in ExcludedFolderSet(settings) : ~IsPrefix(folder, recent[i].path)

\* C1 witness: the vault holds the changelog (not under an excluded folder)
\* and "Ps/y.md" while "P" is excluded; the selector returned other documents.
C1_Witness ==
    /\ pc = "selected"
    /\ <<"P">> \in ExcludedFolderSet(settings)
    /\ \E i, j \in 1..Len(files) :
          /\ files[i].path = settings.changelogPath
          /\ files[j].path = PathPsy
    /\ Len(recent) = 1

\* C2: the selector's output has at most maxRecentFiles entries and is
\* ordered by modification time, non-increasing.
C2_BoundedAndSorted ==
    Selected =>
        /\ Len(recent) <= settings.maxRecentFiles
        /\ \A i \in 1..(Len(recent) - 1) : recent[i].mtime >= recent[i + 1].mtime

\* C2 witness: three candidates listed oldest first, two of them returned,
\* the more recent one first.
C2_Witness ==
    /\ pc = "selected"
    /\ Len(Filter(files, settings)) = 3
    /\ files[1].mtime < files[3].mtime
    /\ settings.maxRecentFiles = 2
    /\ Len(recent) = 2
    /\ recent[1].mtime > recent[2].mtime

\* the name of an entry as the documentation states it
ClaimedName(file, s) ==
    IF UseWikiLinks(s) THEN <<"[[", file.basename, "]]">> ELSE <<file.basename>>

\* the entry line (without its newline) with the given separator
LineWith(file, s, sep) ==
    <<"- ">> \o MomentFormat(file.mtime, s.datetimeFormat) \o sep \o ClaimedName(file, s)

CountNewlines(text) == Cardinality({i \in 1..Len(text) : text[i] = "\n"})

\* C8: the rendered body has exactly one line per selected document, in the
\* order of the selection, each "- {formatted mtime} (middle dot) {name}" and
\* ended by a newline; an empty selection yields no line.
C8_EntryLines ==
    pc = "generated" =>
        LET sel == GetRecentlyEditedFiles(files, settings) IN
        /\ Lines(changelog) = [i \in 1..Len(sel) |-> LineWith(sel[i], settings, MiddleDot)]
        /\ CountNewlines(changelog) = Len(sel)

\* C8, the part the code satisfies: the same lines with the separator
\* spelled as in the source file.
C8_EntryLinesSourceSeparator ==
    pc = "generated" =>
        LET sel == GetRecentlyEditedFiles(files, settings) IN
        /\ Lines(changelog) = [i \in 1..Len(sel) |-> LineWith(sel[i], settings, Separator)]
        /\ CountNewlines(changelog) = Len(sel)

\* C9: when the persisted configuration has no useWikiLinks key, after
\* loadSettings every entry is rendered as [[basename]].
C9_WikiLinksByDefault ==
    (pc = "generated" /\ (data = NoData \/ "useWikiLinks" \notin DOMAIN data)) =>
        LET sel == GetRecentlyEditedFiles(files, settings)
            ls == Lines(changelog)
        IN  /\ Len(ls) = Len(sel)
            /\ \A i \in 1..Len(ls) :
                  /\ Len(ls[i]) >= 3
                  /\ SubSeq(ls[i], Len(ls[i]) - 2, Len(ls[i]))
                        = <<"[[", sel[i].basename, "]]">>

\* the configured heading, "" when the key is missing
Heading(s) == IF "changelogHeading" \in DOMAIN s THEN s.changelogHeading ELSE ""

\* C10: with a non-empty changelogHeading the rendered text is the heading,
\* a newline, a newline, then the entries (also for an empty selection); with
\* an empty heading the text is the entries alone.
C10_HeadingFirst ==
    pc = "generated" =>
        LET entries == ConcatLines(GetRecentlyEditedFiles(files, settings), settings) IN
        changelog = IF Heading(settings) # ""
                    THEN <<Heading(settings), "\n", "\n">> \o entries
                    ELSE entries

\* C13: a second full execution, with nothing modified since the first, writes
\* the text the first one wrote (the changelog does not list itself, also
\* when the first execution created it), and after each execution the file
\* holds exactly that text.
C13_Idempotent ==
    pc = "written" =>
        /\ FileAt(files, settings.changelogPath).content = runs[Len(runs)].content
        /\ Cardinality({i \in 1..Len(files) : files[i].path = settings.changelogPath}) = 1
        /\ \A i \in 1..Len(runs) : runs[i].content = runs[1].content

\* C13 witness: the first execution created the changelog, the second one
\* has run, and the text lists two documents.
C13_Witness ==
    /\ pc = "written"
    /\ Len(runs) = 2
    /\ runs[1].created /\ ~runs[2].created
    /\ CountNewlines(runs[2].content) = 2

\* the keys of the persisted object (none when there is no persisted data)
PersistedKeys == IF data = NoData THEN {} ELSE DOMAIN data

\* C14: after loadSettings the settings object has the keys of the defaults
\* and of the persisted object; a key the persisted object has holds the
\* persisted value, every other key its value of DEFAULT_SETTINGS.
C14_MergedOverDefaults ==
    pc # "init" =>
        /\ DOMAIN settings = DOMAIN DEFAULT_SETTINGS \cup PersistedKeys
        /\ \A k \in DOMAIN settings :
              settings[k] = IF k \in PersistedKeys THEN data[k] ELSE DEFAULT_SETTINGS[k]

\* C14 witness: loadSettings has merged a persisted object that has some keys
\* of the defaults, with other values, and lacks others.
C14_Witness ==
    /\ pc = "loaded"
    /\ data # NoData
    /\ "changelogPath" \in DOMAIN data /\ data.changelogPath # DEFAULT_SETTINGS.changelogPath
    /\ "maxRecentFiles" \in DOMAIN data /\ data.maxRecentFiles # DEFAULT_SETTINGS.maxRecentFiles
    /\ "datetimeFormat" \notin DOMAIN data
    /\ "excludedFolders" \notin DOMAIN data

\* the ways an execution ends: written, vault.create threw, or the Notice
Ended == {"done", "failed", "notafile"}

\* C24: no step removes an execution or changes one otherwise than by the
\* return of its own host call (create -> modify or failed, modify -> done),
\* whatever else happens meanwhile; and every execution started ends with its
\* write done or with an error.
C24_NeverCancelled ==
    /\ [][/\ Len(runs') >= Len(runs)
          /\ \A i \in 1..Len(runs) :
                \/ runs'[i] = runs[i]
                \/ /\ [runs'[i] EXCEPT !.pc = runs[i].pc, !.created = runs[i].created]
                          = runs[i]
                   /\ <<runs[i].pc, runs'[i].pc>> \in
                          {<<"create", "modify">>, <<"create", "failed">>,
                           <<"modify", "done">>}
         ]_vars
    /\ \A i \in 1..MaxRuns :
          (Len(runs) >= i) ~> (Len(runs) >= i /\ runs[i].pc \in Ended)

\* C24 witness: an auto-triggered execution still in flight after auto-update
\* was turned off, a manual execution ran to its end, and that execution's
\* write started the timeout again.
C24_Witness ==
    /\ Len(runs) = 2
    /\ runs[1].trigger = "auto" /\ runs[1].pc \in {"create", "modify"}
    /\ runs[2].trigger = "manual" /\ runs[2].pc = "done"
    /\ ~settings.autoUpdate
    /\ timer # NoTimer

\* the step is the vault emitting an event: an operation of the user on a
\* file, or the return of an execution's vault.modify
EventStep ==
    \/ ops'.user = ops.user + 1
    \/ \E i \in 1..Len(runs) : runs[i].pc = "modify" /\ runs'[i].pc = "done"

\* C27: whatever the number of registrations, an event arriving while no
\* timeout is pending starts one timeout of 200 ms, counted as one event;
\* executions start only at an expiry, one at a time, and the expiry after a
\* single event for a file other than the changelog starts one.
C27_OneRunPerEvent ==
    [][/\ (timer = NoTimer /\ timer' # NoTimer) =>
            /\ EventStep
            /\ timer' = DebounceMs
            /\ hist'.n = 1
       /\ Len(runs') # Len(runs) => (Expiry /\ Len(runs') = Len(runs) + 1)
       /\ (Expiry /\ hist.n = 1 /\ hist.other) => Len(runs') = Len(runs) + 1
      ]_vars

\* C27 witness: with the handlers registered more than once, the window of a
\* single event for a file other than the changelog has expired and one
\* execution has started.
C27_Witness ==
    /\ registered >= 2
    /\ timer = NoTimer
    /\ hist.n = 1 /\ hist.other /\ hist.started
    /\ Len(runs) = 1 /\ runs[1].trigger = "auto"

\* C26: when the gate is Idle and no execution is in flight, after an execution
\* has started (so after an event for a file other than the changelog) and
\* with no execution ended in an error, the changelog file, if the user has
\* not removed it, holds the
\* rendering of the selection over the vault and the settings as they are.
C26_QuiescentIsCurrent ==
    ( /\ pc = "loaded" /\ settings.autoUpdate
      /\ Quiescent
      /\ Len(runs) >= 1
      /\ \A i \in 1..Len(runs) : runs[i].pc = "done"
      /\ HasFile(files, settings.changelogPath) )
    => FileAt(files, settings.changelogPath).content = GenerateChangelog(files, settings)

\* C25: no execution waits for vault.create on a path that holds a file, and
\* none ends with vault.create's rejection.
C25_NoInterference ==
    \A i \in 1..Len(runs) :
        /\ runs[i].pc = "create" => GetAbstractFileByPath(files, runs[i].path) = "null"
        /\ runs[i].pc # "failed"

\* the positions, in the vault's list, of the documents that are neither the
\* changelog nor under an excluded prefix
Candidates ==
    {i \in 1..Len(files) :
        /\ files[i].path # settings.changelogPath
        /\ \A folder \in ExcludedFolderSet(settings) : ~IsPrefix(folder, files[i].path)}

\* the positions of the documents the selector returned
Returned == {i \in 1..Len(files) : \E k \in 1..Len(recent) : recent[k] = files[i]}

\* C22: the selector returns min(maxRecentFiles, number of candidates)
\* candidates, each once; a candidate is left out only when at least
\* maxRecentFiles other candidates have an mtime >= its own.
C22_FirstNOfSorted ==
    Selected =>
        /\ Returned \subseteq Candidates
        /\ Cardinality(Returned) = Len(recent)
        /\ Len(recent) = IF Cardinality(Candidates) < settings.maxRecentFiles
                         THEN Cardinality(Candidates) ELSE settings.maxRecentFiles
        /\ \A i \in Candidates \ Returned :
              Cardinality({j \in Candidates \ {i} : files[j].mtime >= files[i].mtime})
                  >= settings.maxRecentFiles

\* C22 witness: of three candidates the two most recent are returned and the
\* oldest, listed first in the vault, is left out.
C22_Witness ==
    /\ pc = "selected"
    /\ Cardinality(Candidates) = 3
    /\ settings.maxRecentFiles = 2
    /\ 1 \in Candidates \ Returned
    /\ \A j \in Returned : files[j].mtime > files[1].mtime

\* the position in the vault's list of the k-th returned document
Position(k) == CHOOSE i \in 1..Len(files) : files[i] = recent[k]

\* C23: returned documents of equal mtime are in the order of the vault's
\* list, and a candidate left out is listed after every returned document of
\* its mtime.
C23_StableSort ==
    Selected =>
        /\ \A k, l \in 1..Len(recent) :
              (k < l /\ recent[k].mtime = recent[l].mtime) => Position(k) < Position(l)
        /\ \A i \in Candidates \ Returned : \A j \in Returned :
              files[j].mtime = files[i].mtime => j < i

\* C23 witness: three candidates of one mtime, the first two of the vault's
\* list returned in that order, the third cut off.
C23_Witness ==
    /\ pc = "selected"
    /\ Cardinality(Candidates) = 3
    /\ \A i, j \in Candidates : files[i].mtime = files[j].mtime
    /\ Len(recent) = 2
    /\ Position(1) < Position(2)
    /\ \E i \in Candidates \ Returned : i > Position(2)

====
